---- MODULE Spec2Model ----
(***************************************************************************)
(* The STLViewer component (src/src/app/components/STLViewer.tsx) as a     *)
(* state machine: its React state (loading, error), its three refs, the    *)
(* DOM children of its container, and for every run of its effect (a       *)
(* "mount cycle") the objects that run's closure owns: scene, camera,      *)
(* renderer, controls, the in-flight load and the animation-frame loop.    *)
(*                                                                         *)
(* Lengths are fixed-point integers, 10000 to 1.0.  sin(37.5 deg) is the   *)
(* rational SinHalfFovNum / SinDen.                                        *)
(*                                                                         *)
(* The host is single threaded: every handler below is one atomic step.    *)
(* React runs an effect's cleanup and the next effect body back to back    *)
(* in one flush; the state between the two is the phase "torn", in which   *)
(* no other handler is enabled.                                            *)
(***************************************************************************)
EXTENDS Integers, FiniteSets, Sequences, TLC

\* ---------------------------------------------------------------- bounds
MaxCycles == 3          \* effect runs (mount cycles) explored

Cycles == 1..MaxCycles

Null == 0               \* a ref's null / React's "no cleanup"

\* ---------------------------------------------------------- fixed point
\* (10000 to 1.0)
Fov == 75               \* camera field of view, degrees
SinHalfFovNum == 6088   \* Math.sin(fov / 2) = sin(37.5 deg) = 0.6088
SinDen == 10000
InitialCameraZ == 50000     \* camera.position.z = 5
DefaultNear == 1000         \* 0.1
DefaultFar == 10000000      \* 1000
MinNear == 1000             \* 0.1 in Math.max(maxDim * nearPlaneFactor, 0.1)
NearPlaneDivisor == 100     \* nearPlaneFactor = 0.01
FarPlaneFactor == 2
LightCount == 3             \* ambient, directional, back light

ErrorMessage == "Failed to load the 3D model."
NoError == "null"

\* ----------------------------------------------------------- the inputs
\* Bounding boxes of the geometries a load can deliver.
Box(x0, y0, z0, x1, y1, z1) == [min |-> <<x0, y0, z0>>, max |-> <<x1, y1, z1>>]

Geometries ==
    { Box(0, 0, 0, 100, 100, 100),                        \* 0.01 cube
      Box(-10000, -10000, -10000, 10000, 10000, 10000),   \* 2x2x2 at origin
      Box(10000, 0, -20000, 30000, 200000, 20000) }       \* 2 x 20 x 4

NoGeometry == Box(0, 0, 0, 0, 0, 0)

\* Props the host page can pass.
Urls == {"/models/dcenter.stl", "/models/4SHAUL.stl"}
Widths == {600, 800}
Heights == {400, 300}
BackgroundColors == {"#f5f5f5", "#000000"}
ModelColors == {"#ffffff", "#00bcd4"}

AllProps ==
    [url : Urls, width : Widths, height : Heights,
     backgroundColor : BackgroundColors, modelColor : ModelColors]

\* STLViewerDemo's first render of the viewer.
DefaultProps ==
    [url |-> "/models/dcenter.stl", width |-> 600, height |-> 400,
     backgroundColor |-> "#f5f5f5", modelColor |-> "#ffffff"]

\* The number of dependencies in which two props differ.
Differences(p, q) ==
    Cardinality({f \in {"url", "width", "height", "backgroundColor", "modelColor"} :
                    p[f] # q[f]})

\* The props explored: the first render's, and those one field away from it.
Props == {p \in AllProps : Differences(p, DefaultProps) <= 1}

VARIABLES
    phase,              \* "rendered" | "live" | "torn" | "unmounted" | "crashed"
    props,              \* the props of the last render (the effect's deps)
    mountRef,           \* mountRef.current: TRUE when it holds the container div
    loading,            \* useState loading
    error,              \* useState error
    rendererRef,        \* rendererRef.current: the cycle whose renderer, or Null
    controlsRef,        \* controlsRef.current: the cycle whose controls, or Null
    animationFrameRef,  \* animationFrameRef.current: a frame handle, or Null
    children,           \* canvases (by cycle) that are children of the container
    effectCleanup,      \* the cycle whose cleanup React holds, or Null
    nCycles,            \* effect bodies run so far
    scene,              \* per cycle: the closure's scene
    camera,             \* per cycle: the closure's camera
    load,               \* per cycle: "none" | "pending" | "success" | "failure"
    mesh,               \* per cycle: the mesh the success callback built
    rendererDisposed,   \* per cycle: renderer.dispose() calls
    controlsDisposed,   \* per cycle: controls.dispose() calls
    torn,               \* per cycle: its cleanup has run
    pendingFrames,      \* frame requests the browser holds
    renders,            \* renderer.render calls, modulo 2
    lastOp              \* the handler that ran last, and the cycle it belongs to

vars ==
    <<phase, props, mountRef, loading, error, rendererRef, controlsRef,
      animationFrameRef, children, effectCleanup, nCycles, scene, camera, load,
      mesh, rendererDisposed, controlsDisposed, torn, pendingFrames, renders,
      lastOp>>

\* ------------------------------------------------------------- helpers
Max2(a, b) == IF a >= b THEN a ELSE b
Max3(a, b, c) == Max2(a, Max2(b, c))

EmptyScene == [lights |-> 0, meshes |-> 0]
NoMesh == [present |-> FALSE, geometry |-> NoGeometry, position |-> <<0, 0, 0>>,
           resources |-> {}]

Abs(a) == IF a < 0 THEN -a ELSE a

\* ------------------------------------------------------ camera fitting
\* boundingBox.getSize / getCenter
BoxSize(g) == [i \in 1..3 |-> g.max[i] - g.min[i]]
BoxCenter(g) == [i \in 1..3 |-> (g.min[i] + g.max[i]) \div 2]

\* const maxDim = Math.max(size.x, size.y, size.z)
MaxDim(g) == Max3(BoxSize(g)[1], BoxSize(g)[2], BoxSize(g)[3])

\* (a camera distance taken from half the largest dimension)
CameraZHalfDim(maxDim) == Abs(((maxDim \div 2) * SinDen) \div SinHalfFovNum)

\* const cameraZ = Math.abs(maxDim / Math.sin(fov / 2))
CameraZ(maxDim) == Abs((maxDim * SinDen) \div SinHalfFovNum)

\* const nearPlane = Math.max(maxDim * nearPlaneFactor, 0.1)
NearPlane(maxDim) == Max2(maxDim \div NearPlaneDivisor, MinNear)

\* const farPlane = (cameraZ + maxDim / 2) * farPlaneFactor
FarPlane(maxDim) == (CameraZ(maxDim) + maxDim \div 2) * FarPlaneFactor

\* camera.position.z = cameraZ * 1.5; camera.near; camera.far
FitCamera(g) ==
    [z |-> (CameraZ(MaxDim(g)) * 3) \div 2,
     near |-> NearPlane(MaxDim(g)),
     far |-> FarPlane(MaxDim(g))]

\* new THREE.PerspectiveCamera(75, width / height, 0.1, 1000); position.z = 5
NewCamera == [z |-> InitialCameraZ, near |-> DefaultNear, far |-> DefaultFar]

\* (a mesh moved by the centre instead of its negation)
NewMeshNotNegated(g) ==
    [present |-> TRUE, geometry |-> g,
     position |-> [i \in 1..3 |-> BoxCenter(g)[i]],
     resources |-> {"geometry", "material"}]

\* new THREE.Mesh(geometry, material); mesh.position.set(-center...)
NewMesh(g) ==
    [present |-> TRUE, geometry |-> g,
     position |-> [i \in 1..3 |-> -BoxCenter(g)[i]],
     resources |-> {"geometry", "material"}]

\* --------------------------------------------------------------- React
\* A state setter: React drops an update of a component that is unmounted.
SetState(current, value) == IF phase = "unmounted" THEN current ELSE value

\* (a dependency array that leaves out modelColor)
DepsChangedNoColor(old, new) ==
    \/ old.url # new.url
    \/ old.width # new.width
    \/ old.height # new.height
    \/ old.backgroundColor # new.backgroundColor

\* The dependency array [url, width, height, backgroundColor, modelColor].
DepsChanged(old, new) ==
    \/ old.url # new.url
    \/ old.width # new.width
    \/ old.height # new.height
    \/ old.backgroundColor # new.backgroundColor
    \/ old.modelColor # new.modelColor

\* ------------------------------------------------------------- browser
\* (an animate that does not reschedule itself)
RequestAnimationFrameDropped(pending, c) == pending

\* A frame handle is named by the cycle whose animate requested it: a cycle
\* has one request outstanding at most, and the ref always holds the newest.
CancelAnimationFrame(pending, handle) == pending \ {handle}
RequestAnimationFrame(pending, c) == pending \cup {c}

Init ==
    /\ phase = "rendered"
    /\ props = DefaultProps
    /\ mountRef = TRUE
    /\ loading = TRUE
    /\ error = NoError
    /\ rendererRef = Null
    /\ controlsRef = Null
    /\ animationFrameRef = Null
    /\ children = {}
    /\ effectCleanup = Null
    /\ nCycles = 0
    /\ scene = [c \in Cycles |-> EmptyScene]
    /\ camera = [c \in Cycles |-> NewCamera]
    /\ load = [c \in Cycles |-> "none"]
    /\ mesh = [c \in Cycles |-> NoMesh]
    /\ rendererDisposed = [c \in Cycles |-> 0]
    /\ controlsDisposed = [c \in Cycles |-> 0]
    /\ torn = [c \in Cycles |-> FALSE]
    /\ pendingFrames = {}
    /\ renders = 0
    /\ lastOp = [op |-> "render", cycle |-> Null]

\* ------------------------------------------------------ effect cleanup
\* The effect body's own cancel, before it builds the new scene.
InitializeCancel(pending, handle) ==
    IF handle # Null THEN CancelAnimationFrame(pending, handle) ELSE pending

\* (a cleanup that leaves the frame request pending)
CleanupCancelSkipped(pending, handle) == pending

\* if (animationFrameRef.current !== null) cancelAnimationFrame(...)
CleanupCancel(pending, handle) ==
    IF handle # Null THEN CancelAnimationFrame(pending, handle) ELSE pending

\* (a cleanup that leaves the canvas in the container)
CleanupDetachSkipped(kids, mref, r) == kids

\* mountRef.current && mountRef.current.contains(domElement) => removeChild
CleanupDetach(kids, mref, r) ==
    IF mref /\ r \in kids THEN kids \ {r} ELSE kids

\* (a cleanup that leaves the renderer handle set)
CleanupRendererRefStale(r) == r

\* controlsRef.current = null / rendererRef.current = null
CleanupControlsRef(r) == Null
\* (a cleanup that keeps the renderer handle)
CleanupRendererRefKept(r) == r

CleanupRendererRef(r) == Null

\* The function the effect of cycle c returns, run with mountRef.current = mref.
Cleanup(c, mref) ==
    /\ pendingFrames' = CleanupCancel(pendingFrames, animationFrameRef)
    /\ scene' = [scene EXCEPT ![c] = EmptyScene]
    /\ IF controlsRef # Null
       THEN /\ controlsDisposed' =
                   [controlsDisposed EXCEPT ![controlsRef] = @ + 1]
            /\ controlsRef' = CleanupControlsRef(controlsRef)
       ELSE UNCHANGED <<controlsDisposed, controlsRef>>
    /\ IF rendererRef # Null
       THEN /\ rendererDisposed' =
                   [rendererDisposed EXCEPT ![rendererRef] = @ + 1]
            /\ children' = CleanupDetach(children, mref, rendererRef)
            /\ rendererRef' = CleanupRendererRef(rendererRef)
       ELSE UNCHANGED <<rendererDisposed, children, rendererRef>>
    /\ torn' = [torn EXCEPT ![c] = TRUE]
    /\ UNCHANGED animationFrameRef

\* -------------------------------------------------------- effect body
\* The effect body, run after the first commit and after every cleanup that
\* a changed dependency caused.
Initialize ==
    /\ phase \in {"rendered", "torn"}
    /\ nCycles < MaxCycles
    /\ LET c == nCycles + 1
           stale == rendererRef # Null
           throws == mountRef /\ stale /\ rendererRef \notin children
           kids == IF stale THEN children \ {rendererRef} ELSE children
           pending == InitializeCancel(pendingFrames, animationFrameRef)
       IN  IF ~mountRef
           THEN \* if (!mountRef.current) return;
                /\ phase' = "live"
                /\ effectCleanup' = Null
                /\ lastOp' = [op |-> "initialize", cycle |-> Null]
                /\ UNCHANGED <<props, mountRef, loading, error, rendererRef,
                               controlsRef, animationFrameRef, children,
                               nCycles, scene, camera, load, mesh,
                               rendererDisposed, controlsDisposed, torn,
                               pendingFrames, renders>>
           ELSE IF throws
           THEN \* removeChild of a node that is not a child throws
                /\ phase' = "crashed"
                /\ effectCleanup' = Null
                /\ lastOp' = [op |-> "initialize", cycle |-> Null]
                /\ UNCHANGED <<props, mountRef, loading, error, rendererRef,
                               controlsRef, animationFrameRef, children,
                               nCycles, scene, camera, load, mesh,
                               rendererDisposed, controlsDisposed, torn,
                               pendingFrames, renders>>
           ELSE /\ phase' = "live"
                /\ nCycles' = c
                /\ rendererDisposed' =
                       IF stale
                       THEN [rendererDisposed EXCEPT ![rendererRef] = @ + 1]
                       ELSE rendererDisposed
                /\ scene' = [scene EXCEPT
                                ![c] = [lights |-> LightCount, meshes |-> 0]]
                /\ camera' = [camera EXCEPT ![c] = NewCamera]
                /\ rendererRef' = c
                /\ children' = kids \cup {c}
                /\ controlsRef' = c
                /\ load' = [load EXCEPT ![c] = "pending"]
                \* animate(): update, render, requestAnimationFrame
                /\ renders' = (renders + 1) % 2
                /\ pendingFrames' = RequestAnimationFrame(pending, c)
                /\ animationFrameRef' = c
                /\ effectCleanup' = c
                /\ lastOp' = [op |-> "initialize", cycle |-> c]
                /\ UNCHANGED <<props, mountRef, loading, error, mesh,
                               controlsDisposed, torn>>

\* A render with props of which a dependency changed: React runs the cleanup
\* of the current cycle; the effect body follows (Initialize).
RerenderChanged ==
    /\ phase = "live"
    /\ \E p \in Props :
          /\ DepsChanged(props, p)
          /\ props' = p
    /\ phase' = "torn"
    /\ IF effectCleanup # Null
       THEN Cleanup(effectCleanup, mountRef)
       ELSE UNCHANGED <<pendingFrames, scene, controlsDisposed, controlsRef,
                        rendererDisposed, children, rendererRef, torn,
                        animationFrameRef>>
    /\ lastOp' = [op |-> "teardown", cycle |-> effectCleanup]
    /\ effectCleanup' = Null
    /\ UNCHANGED <<mountRef, loading, error, nCycles, camera, load, mesh,
                   renders>>

\* A render in which no dependency changed: the effect is skipped.
RerenderSame ==
    /\ phase = "live"
    /\ \E p \in Props :
          /\ ~DepsChanged(props, p)
          /\ props' = p
    /\ lastOp' = [op |-> "rerender", cycle |-> effectCleanup]
    /\ UNCHANGED <<phase, mountRef, loading, error, rendererRef, controlsRef,
                   animationFrameRef, children, effectCleanup, nCycles, scene,
                   camera, load, mesh, rendererDisposed, controlsDisposed,
                   torn, pendingFrames, renders>>

\* Unmount: React detaches the ref and runs the cleanup; which comes first
\* depends on the React version, so the cleanup sees either.
Unmount ==
    /\ phase = "live"
    /\ phase' = "unmounted"
    /\ mountRef' = FALSE
    /\ IF effectCleanup # Null
       THEN \E mref \in {mountRef, FALSE} : Cleanup(effectCleanup, mref)
       ELSE UNCHANGED <<pendingFrames, scene, controlsDisposed, controlsRef,
                        rendererDisposed, children, rendererRef, torn,
                        animationFrameRef>>
    /\ lastOp' = [op |-> "unmount", cycle |-> effectCleanup]
    /\ effectCleanup' = Null
    /\ UNCHANGED <<props, loading, error, nCycles, camera, load, mesh, renders>>

\* ------------------------------------------------------ load callbacks
\* Nothing cancels a load: its callback runs whenever the loader delivers,
\* whatever became of the cycle that started it.

\* (a success callback that leaves the mesh out of the scene)
SceneAddSkipped(s) == s

\* scene.add(mesh) on the closure's scene
SceneAdd(s) == [s EXCEPT !.meshes = @ + 1]

\* (a success callback that also clears the error message)
SuccessStateClearsError ==
    [loading |-> SetState(loading, FALSE), error |-> SetState(error, NoError)]

\* The state updates of the success callback: setLoading(false).
SuccessState == [loading |-> SetState(loading, FALSE), error |-> error]

\* (an error callback that forgets setLoading(false))
FailureStateStillLoading ==
    [loading |-> loading, error |-> SetState(error, ErrorMessage)]

\* The state updates of the error callback: setError(...); setLoading(false).
FailureState ==
    [loading |-> SetState(loading, FALSE), error |-> SetState(error, ErrorMessage)]

LoadSuccess ==
    /\ phase \in {"live", "unmounted"}
    /\ \E c \in Cycles, g \in Geometries :
          /\ load[c] = "pending"
          /\ load' = [load EXCEPT ![c] = "success"]
          /\ mesh' = [mesh EXCEPT ![c] = NewMesh(g)]
          /\ camera' = [camera EXCEPT ![c] = FitCamera(g)]
          /\ scene' = [scene EXCEPT ![c] = SceneAdd(scene[c])]
          /\ lastOp' = [op |-> "loadSuccess", cycle |-> c]
    /\ loading' = SuccessState.loading
    /\ error' = SuccessState.error
    /\ UNCHANGED <<phase, props, mountRef, rendererRef, controlsRef,
                   animationFrameRef, children, effectCleanup, nCycles,
                   rendererDisposed, controlsDisposed, torn, pendingFrames,
                   renders>>

LoadFailure ==
    /\ phase \in {"live", "unmounted"}
    /\ \E c \in Cycles :
          /\ load[c] = "pending"
          /\ load' = [load EXCEPT ![c] = "failure"]
          /\ lastOp' = [op |-> "loadFailure", cycle |-> c]
    /\ loading' = FailureState.loading
    /\ error' = FailureState.error
    /\ UNCHANGED <<phase, props, mountRef, rendererRef, controlsRef,
                   animationFrameRef, children, effectCleanup, nCycles, scene,
                   camera, mesh, rendererDisposed, controlsDisposed, torn,
                   pendingFrames, renders>>

\* ---------------------------------------------------------- render loop
\* The browser runs a pending frame request of cycle c: animate().
Frame ==
    /\ phase \in {"live", "unmounted"}
    /\ \E c \in pendingFrames :
          /\ renders' = (renders + 1) % 2
          /\ pendingFrames' =
                 RequestAnimationFrame(pendingFrames \ {c}, c)
          /\ animationFrameRef' = c
          /\ lastOp' = [op |-> "frame", cycle |-> c]
    /\ UNCHANGED <<phase, props, mountRef, loading, error, rendererRef,
                   controlsRef, children, effectCleanup, nCycles, scene,
                   camera, load, mesh, rendererDisposed, controlsDisposed,
                   torn>>

\* ---------------------------------------------------- teardown, repeated
\* The cleanup that has just run is invoked a second time.
TeardownAgain ==
    /\ lastOp.op \in {"teardown", "unmount"}
    /\ lastOp.cycle # Null
    /\ Cleanup(lastOp.cycle, mountRef)
    /\ lastOp' = [op |-> "teardownAgain", cycle |-> lastOp.cycle]
    /\ UNCHANGED <<phase, props, mountRef, loading, error, effectCleanup,
                   nCycles, camera, load, mesh, renders>>

Next ==
    \/ Initialize
    \/ RerenderChanged
    \/ RerenderSame
    \/ Unmount
    \/ LoadSuccess
    \/ LoadFailure
    \/ Frame

Spec == Init /\ [][Next]_vars

NextTwice == Next \/ TeardownAgain

SpecTwice == Init /\ [][NextTwice]_vars

TypeOK ==
    /\ phase \in {"rendered", "live", "torn", "unmounted", "crashed"}
    /\ props \in Props
    /\ mountRef \in BOOLEAN
    /\ loading \in BOOLEAN
    /\ error \in {NoError, ErrorMessage}
    /\ rendererRef \in Cycles \cup {Null}
    /\ controlsRef \in Cycles \cup {Null}
    /\ animationFrameRef \in Cycles \cup {Null}
    /\ children \subseteq Cycles
    /\ effectCleanup \in Cycles \cup {Null}
    /\ nCycles \in 0..MaxCycles
    /\ pendingFrames \subseteq Cycles
    /\ renders \in 0..1

\* ================================================================ claims
\* The live cycle: the one whose cleanup React holds.
Live == phase = "live" /\ effectCleanup # Null

\* C1 (as claimed): a load callback delivered after the teardown of the cycle
\* that started the load changes no scene, no camera, and neither the loading
\* flag nor the error message.
C1_StaleCallbackInert ==
    [][\A c \in Cycles :
          (torn[c] /\ load[c] = "pending" /\ load'[c] # "pending")
              => UNCHANGED <<scene, camera, loading, error>>]_vars

\* C2 (as claimed): the viewer never shows both a mesh in the current scene
\* and an error message.
C2_NeverMeshAndError ==
    Live => ~(scene[effectCleanup].meshes > 0 /\ error # NoError)

\* C3 (as claimed): while the load of the current cycle is pending, the
\* loading flag is true.
C3_LoadingWhilePending ==
    (Live /\ load[effectCleanup] = "pending") => loading

\* C4: after every initialization exactly the new cycle's canvas is attached
\* to the container, and in no state are two canvases attached.
C4_OneSurface ==
    /\ Cardinality(children) <= 1
    /\ Live => children = {effectCleanup}

C4_Witness ==
    /\ Live
    /\ lastOp = [op |-> "initialize", cycle |-> effectCleanup]
    /\ effectCleanup >= 2
    /\ children = {effectCleanup}

\* C5 (as claimed): once a cycle is torn down its renderer, its controls and
\* the geometry and material of its mesh have been released.
C5_ResourcesReleased ==
    \A c \in Cycles :
        torn[c] => /\ rendererDisposed[c] >= 1
                   /\ controlsDisposed[c] >= 1
                   /\ mesh[c].resources = {}

\* C6: at most one frame request is pending, it belongs to a cycle that is not
\* torn down, none is pending between a teardown and the next initialization,
\* and a frame callback only ever runs for the live cycle.
C6_OneRenderLoop ==
    /\ Cardinality(pendingFrames) <= 1
    /\ \A c \in pendingFrames : ~torn[c]
    /\ phase \in {"torn", "unmounted"} => pendingFrames = {}
    /\ lastOp.op = "frame" => (Live /\ lastOp.cycle = effectCleanup)

C6_Witness ==
    /\ lastOp.op = "frame"
    /\ lastOp.cycle >= 2
    /\ torn[1]

\* C7: once the load of the live cycle has failed, the error message is set,
\* the loading flag is false, the scene holds its lights and no mesh, and the
\* cycle's frame request is pending.
C7_FailureOutcome ==
    (Live /\ load[effectCleanup] = "failure") =>
        /\ error = ErrorMessage
        /\ ~loading
        /\ scene[effectCleanup] = [lights |-> LightCount, meshes |-> 0]
        /\ ~mesh[effectCleanup].present
        /\ effectCleanup \in pendingFrames

C7_Witness ==
    /\ Live
    /\ load[effectCleanup] = "failure"
    /\ lastOp = [op |-> "frame", cycle |-> effectCleanup]

\* C8: a second invocation of a cleanup, right after the first, leaves the
\* renderer handle, the controls handle, the container's children and the
\* disposal counts as they are.
C8_TeardownIdempotent ==
    [][lastOp'.op = "teardownAgain" =>
          UNCHANGED <<rendererRef, controlsRef, children, rendererDisposed,
                      controlsDisposed, pendingFrames, phase>>]_vars

C8_Witness ==
    /\ lastOp.op = "teardownAgain"
    /\ rendererDisposed[lastOp.cycle] = 1
    /\ controlsDisposed[lastOp.cycle] = 1
    /\ rendererRef = Null

\* C9 (as claimed): after a teardown the renderer handle, the controls handle
\* and the animation-frame handle are all null.
C9_HandlesNull ==
    phase \in {"torn", "unmounted"} =>
        /\ rendererRef = Null
        /\ controlsRef = Null
        /\ animationFrameRef = Null

\* C10 (as claimed): after every load success the near plane is
\* max(maxDim * 0.01, 0.1) and lies strictly below the far plane
\* (maxDim / sin(37.5 deg) + maxDim / 2) * 2.
C10_NearBelowFar ==
    \A c \in Cycles :
        load[c] = "success" =>
            LET maxDim == MaxDim(mesh[c].geometry)
            IN  /\ maxDim > 0
                /\ camera[c].near = Max2(maxDim \div NearPlaneDivisor, MinNear)
                /\ camera[c].far =
                       ((maxDim * SinDen) \div SinHalfFovNum + maxDim \div 2)
                           * FarPlaneFactor
                /\ camera[c].near < camera[c].far

\* The 2x2x2 cube centred at the origin.
Cube2 == Box(-10000, -10000, -10000, 10000, 10000, 10000)

\* |a - b| <= 0.01
About(a, b) == Abs(a - b) <= 100

\* C11 (as claimed): for the 2x2x2 cube the camera is placed at about 2.46,
\* the near plane is 0.1 and the far plane about 6.92.
C11_CubeAsClaimed ==
    \A c \in Cycles :
        (load[c] = "success" /\ mesh[c].geometry = Cube2) =>
            /\ About(camera[c].z, 24600)
            /\ camera[c].near = 1000
            /\ About(camera[c].far, 69200)

\* C11 (amended): for the 2x2x2 cube maxDim is 2, so the camera is placed at
\* (2 / sin(37.5 deg)) * 1.5, about 4.93, the near plane is 0.1 and the far
\* plane is (2 / sin(37.5 deg) + 1) * 2, about 8.57.
C11_CubeFit ==
    \A c \in Cycles :
        (load[c] = "success" /\ mesh[c].geometry = Cube2) =>
            /\ About(camera[c].z, 49280)
            /\ camera[c].near = 1000
            /\ About(camera[c].far, 85700)

C11_Witness ==
    \E c \in Cycles :
        /\ load[c] = "success"
        /\ mesh[c].geometry = Cube2
        /\ lastOp = [op |-> "loadSuccess", cycle |-> c]

\* C12: a step that changes any field of the props tears the live cycle down
\* and leaves the initialization as the only next step, which runs with the
\* previous cycle torn down; a render with unchanged props changes nothing
\* but the record of the last handler.
C12_TeardownThenInitialize ==
    [][/\ (phase = "live" /\ props' # props) =>
             /\ phase' = "torn"
             /\ lastOp' = [op |-> "teardown", cycle |-> effectCleanup]
             /\ effectCleanup # Null => torn'[effectCleanup]
             /\ nCycles' = nCycles
       /\ phase = "torn" =>
             /\ phase' = "live"
             /\ lastOp' = [op |-> "initialize", cycle |-> nCycles + 1]
             /\ \A c \in 1..nCycles : torn[c]
             /\ props' = props
       /\ lastOp'.op = "teardown" => props' # props
       /\ lastOp'.op = "rerender" =>
             /\ props' = props
             /\ UNCHANGED <<phase, mountRef, loading, error, rendererRef,
                            controlsRef, animationFrameRef, children,
                            effectCleanup, nCycles, scene, camera, load, mesh,
                            rendererDisposed, controlsDisposed, torn,
                            pendingFrames, renders>>]_vars

C12_Witness ==
    /\ Live
    /\ lastOp = [op |-> "initialize", cycle |-> effectCleanup]
    /\ effectCleanup = 2
    /\ torn[1]
    /\ props.modelColor # DefaultProps.modelColor

\* C13: the mesh is moved by the negated centre of its bounding box, so the
\* displayed box is centred at the origin on every axis.
C13_Centred ==
    \A c \in Cycles :
        mesh[c].present =>
            \A i \in 1..3 :
                /\ mesh[c].position[i] * 2 =
                       -(mesh[c].geometry.min[i] + mesh[c].geometry.max[i])
                /\ (mesh[c].geometry.min[i] + mesh[c].position[i])
                       + (mesh[c].geometry.max[i] + mesh[c].position[i]) = 0

C13_Witness ==
    \E c \in Cycles :
        /\ mesh[c].present
        /\ scene[c].meshes = 1
        /\ mesh[c].geometry.min[2] + mesh[c].geometry.max[2] # 0

\* The browser runs every frame request that stays pending.
SpecFair == Init /\ [][Next]_vars /\ WF_vars(Frame)

\* C14: while a cycle is live its frame request is pending and the refs hold
\* its controls and renderer, whatever became of its load; and with frames
\* scheduled fairly, a cycle that is never torn down renders again and again.
C14_LoopRuns ==
    /\ [](Live => /\ effectCleanup \in pendingFrames
                  /\ controlsRef = effectCleanup
                  /\ rendererRef = effectCleanup)
    /\ <>[]Live => []<><<renders' # renders>>_vars

C14_Witness ==
    /\ Live
    /\ load[effectCleanup] = "success"
    /\ lastOp = [op |-> "frame", cycle |-> effectCleanup]
    /\ effectCleanup \in pendingFrames

\* C15 (as claimed): after every load success the near plane is closer to the
\* camera than the nearest face of the centred model, camera z - maxDim / 2.
C15_NotClipped ==
    \A c \in Cycles :
        load[c] = "success" =>
            camera[c].near < camera[c].z - MaxDim(mesh[c].geometry) \div 2

\* C16: the success callback of the live cycle's load fits that cycle's
\* camera, adds one mesh to that cycle's scene and sets loading to false,
\* leaving the error message as it is; no scene ever holds two meshes.
C16_SuccessEffect ==
    [][/\ \A c \in Cycles :
             (Live /\ c = effectCleanup /\ load[c] = "pending"
                   /\ load'[c] = "success") =>
                 /\ mesh'[c].geometry \in Geometries
                 /\ camera'[c] = FitCamera(mesh'[c].geometry)
                 /\ \A d \in Cycles \ {c} :
                        camera'[d] = camera[d] /\ scene'[d] = scene[d]
                 /\ scene[c].meshes = 0
                 /\ scene'[c].meshes = 1
                 /\ mesh'[c].present
                 /\ ~loading'
                 /\ error' = error
       /\ \A c \in Cycles : scene'[c].meshes <= 1]_vars

C16_Witness ==
    /\ Live
    /\ lastOp = [op |-> "loadSuccess", cycle |-> effectCleanup]
    /\ scene[effectCleanup].meshes = 1
    /\ ~loading

\* C17: no step sets loading back to true once it is false, and no step
\* changes the error message once it is set.
C17_Monotone ==
    [][/\ ~loading => ~loading'
       /\ error # NoError => error' = error]_vars

C17_Witness ==
    /\ Live
    /\ effectCleanup >= 2
    /\ load[effectCleanup] = "pending"
    /\ ~loading
    /\ error = ErrorMessage

\* C18: whenever the effect body is about to run the renderer handle is null,
\* so it never removes or disposes an earlier canvas (each renderer is disposed
\* once at most, by its cleanup) and never throws.
C18_PreClearDead ==
    /\ phase \in {"rendered", "torn"} => rendererRef = Null
    /\ phase # "crashed"
    /\ \A c \in Cycles : rendererDisposed[c] <= 1
    /\ \A c \in Cycles : rendererDisposed[c] = 1 => torn[c]

C18_Witness ==
    /\ phase = "torn"
    /\ lastOp.op = "teardown"
    /\ rendererRef = Null
    /\ rendererDisposed[1] = 1
    /\ children = {}
====
